---------------------------- MODULE Spec2Model ----------------------------
(***************************************************************************)
(* Model of the node client (package nodeclient) of oursql: the address    *)
(* check, the command envelope builder, the two socket paths SendData and  *)
(* SendDataWaitResponse, and the command operations built on them.         *)
(* A second part models the parsed query (package dbquery, parsed.go): the *)
(* classification of a statement, its rollback statement and the values    *)
(* read from its first comment.                                            *)
(*                                                                         *)
(* Bytes are the integers 0..255; byte strings and Go strings (host names, *)
(* command names, tokens, error texts) are sequences of them, in ASCII.    *)
(***************************************************************************)
EXTENDS Integers, Sequences, FiniteSets, TLC

VARIABLES client, chk, built, call, conn, qp, res

vars == <<client, chk, built, call, conn, qp, res>>

-----------------------------------------------------------------------------
(* Bounds of the model *)

\* longest byte body of a payload object / a result value / an error text
MaxBody == 2

\* half-width of the windows of ports enumerated around each boundary
PortWindow == 6

-----------------------------------------------------------------------------
(* Generic helpers *)

RECURSIVE Zeros(_)
Zeros(n) == IF n <= 0 THEN <<>> ELSE <<0>> \o Zeros(n - 1)

SeqsUpTo(S, n) == UNION {[1..k -> S] : k \in 0..n}

\* the bytes bs[from..to] (empty when from > to)
Slice(bs, from, to) == [i \in 1..(to - from + 1) |-> bs[from + i - 1]]

-----------------------------------------------------------------------------
(* Texts of the source, as ASCII byte strings *)

\* "Node Address Port has wrong value"
TxtPortWrong ==
    <<78, 111, 100, 101, 32, 65, 100, 100, 114, 101, 115, 115, 32, 80, 111, 114,
      116, 32, 104, 97, 115, 32, 119, 114, 111, 110, 103, 32, 118, 97, 108, 117,
      101>>

\* "Node Address Host has wrong value"
TxtHostWrong ==
    <<78, 111, 100, 101, 32, 65, 100, 100, 114, 101, 115, 115, 32, 72, 111, 115,
      116, 32, 104, 97, 115, 32, 119, 114, 111, 110, 103, 32, 118, 97, 108, 117,
      101>>

\* " is not available"
TxtNotAvailable ==
    <<32, 105, 115, 32, 110, 111, 116, 32, 97, 118, 97, 105, 108, 97, 98, 108,
      101>>

\* "Received 0 bytes as a response. Expected at least 1 byte"
TxtNoResponse ==
    <<82, 101, 99, 101, 105, 118, 101, 100, 32, 48, 32, 98, 121, 116, 101, 115,
      32, 97, 115, 32, 97, 32, 114, 101, 115, 112, 111, 110, 115, 101, 46, 32,
      69, 120, 112, 101, 99, 116, 101, 100, 32, 97, 116, 32, 108, 101, 97, 115,
      116, 32, 49, 32, 98, 121, 116, 101>>

\* "Get Nodes Response Error: "
TxtGetNodesError ==
    <<71, 101, 116, 32, 78, 111, 100, 101, 115, 32, 82, 101, 115, 112, 111, 110,
      115, 101, 32, 69, 114, 114, 111, 114, 58, 32>>

\* "Add Node Response Error: "
TxtAddNodeError ==
    <<65, 100, 100, 32, 78, 111, 100, 101, 32, 82, 101, 115, 112, 111, 110, 115,
      101, 32, 69, 114, 114, 111, 114, 58, 32>>

\* "Remove Node Response Error: "
TxtRemoveNodeError ==
    <<82, 101, 109, 111, 118, 101, 32, 78, 111, 100, 101, 32, 82, 101, 115, 112,
      111, 110, 115, 101, 32, 69, 114, 114, 111, 114, 58, 32>>

\* "gettig state error: "
TxtGetStateError ==
    <<103, 101, 116, 116, 105, 103, 32, 115, 116, 97, 116, 101, 32, 101, 114, 114,
      111, 114, 58, 32>>

\* "EOF"
TxtEOF ==
    <<69, 79, 70>>

\* "unexpected EOF"
TxtUnexpectedEOF ==
    <<117, 110, 101, 120, 112, 101, 99, 116, 101, 100, 32, 69, 79, 70>>

\* "gob: corrupted data"
TxtGobCorrupted ==
    <<103, 111, 98, 58, 32, 99, 111, 114, 114, 117, 112, 116, 101, 100, 32, 100,
      97, 116, 97>>

\* "gob: type mismatch"
TxtGobMismatch ==
    <<103, 111, 98, 58, 32, 116, 121, 112, 101, 32, 109, 105, 115, 109, 97, 116,
      99, 104>>

\* "gob: type not supported"
TxtGobUnsupported ==
    <<103, 111, 98, 58, 32, 116, 121, 112, 101, 32, 110, 111, 116, 32, 115, 117,
      112, 112, 111, 114, 116, 101, 100>>

\* "broken pipe"
TxtBrokenPipe ==
    <<98, 114, 111, 107, 101, 110, 32, 112, 105, 112, 101>>

\* "connection reset by peer"
TxtConnReset ==
    <<99, 111, 110, 110, 101, 99, 116, 105, 111, 110, 32, 114, 101, 115, 101, 116,
      32, 98, 121, 32, 112, 101, 101, 114>>

\* "connection refused"
TxtConnRefused ==
    <<99, 111, 110, 110, 101, 99, 116, 105, 111, 110, 32, 114, 101, 102, 117, 115,
      101, 100>>

\* "localhost"
HostLocal ==
    <<108, 111, 99, 97, 108, 104, 111, 115, 116>>

\* "10.0.0.1"
HostPeer ==
    <<49, 48, 46, 48, 46, 48, 46, 49>>

-----------------------------------------------------------------------------
(* Errors: the Go error values, by dynamic type and text *)

Nil == [type |-> "nil", msg |-> <<>>]

\* errors.New(text)
ErrorsNew(text) == [type |-> "errorString", msg |-> text]

\* lib/net error constructors, one Go type per error kind
NewCanNotConnectError(text) == [type |-> "CanNotConnectError", msg |-> text]

NewCanNotSendError(text) == [type |-> "CanNotSendError", msg |-> text]

NewNoResponseError(text) == [type |-> "NoResponseError", msg |-> text]

NewCanNotParseResponseError(text) == [type |-> "CanNotParseResponseError", msg |-> text]

-----------------------------------------------------------------------------
(* Address check *)

\* faulty variant of CheckNodeAddress: the Host is not looked at
MutCheckNodeAddressNoHost(address) ==
    IF address.Port < 1024
    THEN ErrorsNew(TxtPortWrong)
    ELSE IF address.Port > 65536
    THEN ErrorsNew(TxtPortWrong)
    ELSE Nil

\* CheckNodeAddress, with the bounds the source has
CheckNodeAddress(address) ==
    IF address.Port < 1024
    THEN ErrorsNew(TxtPortWrong)
    ELSE IF address.Port > 65536
    THEN ErrorsNew(TxtPortWrong)
    ELSE IF address.Host = <<>>
    THEN ErrorsNew(TxtHostWrong)
    ELSE Nil

\* the error kind the specification calls AddressInvalid
AddressInvalid(e) ==
    /\ e.type = "errorString"
    /\ e.msg \in {TxtPortWrong, TxtHostWrong}

-----------------------------------------------------------------------------
(* Wire framing *)

\* lib/net CommandLength: the fixed width of the command identifier
CommandLength == 12

\* lib/net CommandToBytes: the name, zero-padded to the fixed width
\* (defined for names that fit the width; a longer one makes the Go code panic)
CommandToBytes(command) == command \o Zeros(CommandLength - Len(command))

\* lib/net BytesToCommand: the non-zero bytes of the identifier
BytesToCommand(bs) == SelectSeq(bs, LAMBDA b : b # 0)

\* uint32(n) followed by binary.LittleEndian.PutUint32: the four low-order
\* bytes of n, lowest first (the final % 256 is the truncation to 32 bits)
PutUint32(n) ==
    <<n % 256, (n \div 256) % 256, (n \div 65536) % 256, (n \div 16777216) % 256>>

\* binary.LittleEndian.Uint32
Uint32(bs) == bs[1] + 256 * bs[2] + 65536 * bs[3] + 16777216 * bs[4]

\* encoding/gob: the type ids of the predefined types []byte and string
GobTypeId(t) == IF t = "string" THEN 6 ELSE 5

\* encoding/gob: one message holding a top-level non-struct value whose body is
\* a byte string: byte count, type id (as a signed int, id*2), the zero delta
\* marker, the length and the bytes (all counts below 128 are one byte)
GobMessage(t, body) == <<Len(body) + 3, 2 * GobTypeId(t), 0, Len(body)>> \o body

\* encoding/gob Decoder.Decode of one value of type t from the buffer buf
GobDecode(t, buf) ==
    IF Len(buf) = 0 THEN [ok |-> FALSE, val |-> <<>>, err |-> TxtEOF]
    ELSE LET n == buf[1]
         IN  IF Len(buf) < 1 + n
             THEN [ok |-> FALSE, val |-> <<>>, err |-> TxtUnexpectedEOF]
             ELSE LET m == Slice(buf, 2, 1 + n)
                  IN  IF n < 3
                      THEN [ok |-> FALSE, val |-> <<>>, err |-> TxtGobCorrupted]
                      ELSE IF m[1] # 2 * GobTypeId(t)
                      THEN [ok |-> FALSE, val |-> <<>>, err |-> TxtGobMismatch]
                      ELSE IF m[2] # 0 \/ m[3] # n - 3
                      THEN [ok |-> FALSE, val |-> <<>>, err |-> TxtGobCorrupted]
                      ELSE [ok |-> TRUE, val |-> Slice(m, 4, n), err |-> <<>>]

\* a nil interface value passed as the payload object
NilData == [kind |-> "nil", body |-> <<>>, encodable |-> TRUE]

\* a payload object: its content as a byte body, and whether the encoder accepts it
Object(body, encodable) == [kind |-> "obj", body |-> body, encodable |-> encodable]

\* lib/net GobEncode: the gob encoding of the payload object, or the encoder's error
GobEncode(data) ==
    IF data.encodable
    THEN [bytes |-> GobMessage("bytes", data.body), err |-> Nil]
    ELSE [bytes |-> <<>>, err |-> ErrorsNew(TxtGobUnsupported)]

\* faulty variant of doBuildCommandData: the reused length variable is not set
\* again, and the payload length is written as the extra length too
MutDoBuildReusedLength(command, data, extra) ==
    LET enc == IF data.kind # "nil" THEN GobEncode(data) ELSE [bytes |-> <<>>, err |-> Nil]
        payload == enc.bytes
    IN  IF enc.err # Nil
        THEN [request |-> <<>>, err |-> enc.err]
        ELSE [request |-> CommandToBytes(command) \o PutUint32(Len(payload))
                          \o PutUint32(Len(payload)) \o payload
                          \o (IF Len(extra) > 0 THEN extra ELSE <<>>),
              err |-> Nil]

\* faulty variant of doBuildCommandData: the extra is appended before the payload
MutDoBuildExtraFirst(command, data, extra) ==
    LET enc == IF data.kind # "nil" THEN GobEncode(data) ELSE [bytes |-> <<>>, err |-> Nil]
        payload == enc.bytes
    IN  IF enc.err # Nil
        THEN [request |-> <<>>, err |-> enc.err]
        ELSE [request |-> CommandToBytes(command) \o PutUint32(Len(payload))
                          \o PutUint32(Len(extra))
                          \o (IF Len(extra) > 0 THEN extra ELSE <<>>) \o payload,
              err |-> Nil]

\* doBuildCommandData: (request, err); a nil request is the empty byte string
doBuildCommandData(command, data, extra) ==
    LET enc == IF data.kind # "nil" THEN GobEncode(data) ELSE [bytes |-> <<>>, err |-> Nil]
        payload == enc.bytes
    IN  IF enc.err # Nil
        THEN [request |-> <<>>, err |-> enc.err]
        ELSE [request |-> CommandToBytes(command) \o PutUint32(Len(payload))
                          \o PutUint32(Len(extra)) \o payload
                          \o (IF Len(extra) > 0 THEN extra ELSE <<>>),
              err |-> Nil]

\* BuildCommandData
BuildCommandData(command, data) == doBuildCommandData(command, data, <<>>)

\* faulty variant of BuildCommandDataWithAuth: the token is not passed on
MutBuildWithAuthNoToken(c, command, data) == doBuildCommandData(command, data, <<>>)

\* BuildCommandDataWithAuth, on the dispatcher c
BuildCommandDataWithAuth(c, command, data) ==
    doBuildCommandData(command, data, CommandToBytes(c.NodeAuthStr))

\* The inverse of the documented layout (the receiving side): rejects what is
\* shorter than the fixed header or than the lengths it announces
DecodeEnvelope(bs) ==
    LET h == CommandLength + 8
        bad == [ok |-> FALSE, command |-> <<>>, payloadLength |-> 0, extraLength |-> 0,
                payload |-> <<>>, extra |-> <<>>]
    IN  IF Len(bs) < h THEN bad
        ELSE LET pl == Uint32(Slice(bs, CommandLength + 1, CommandLength + 4))
                 el == Uint32(Slice(bs, CommandLength + 5, CommandLength + 8))
             IN  IF Len(bs) < h + pl + el THEN bad
                 ELSE [ok |-> TRUE,
                       command |-> BytesToCommand(Slice(bs, 1, CommandLength)),
                       payloadLength |-> pl, extraLength |-> el,
                       payload |-> Slice(bs, h + 1, h + pl),
                       extra |-> Slice(bs, h + pl + 1, h + pl + el)]

-----------------------------------------------------------------------------
(* Command names *)

\* "addr"
CommandAddresses == <<97, 100, 100, 114>>

\* "getcnsdata"
CommandGetConsensusData == <<103, 101, 116, 99, 110, 115, 100, 97, 116, 97>>

\* "getfblocks"
CommandGetFirstBlocks == <<103, 101, 116, 102, 98, 108, 111, 99, 107, 115>>

\* "getbalance"
CommandGetBalance == <<103, 101, 116, 98, 97, 108, 97, 110, 99, 101>>

\* "getstate"
CommandGetState == <<103, 101, 116, 115, 116, 97, 116, 101>>

\* "getupdates"
CommandGetUpdates == <<103, 101, 116, 117, 112, 100, 97, 116, 101, 115>>

\* "gettransact"
CommandGetTransaction == <<103, 101, 116, 116, 114, 97, 110, 115, 97, 99, 116>>

\* "checkblock"
CommandCheckBlock == <<99, 104, 101, 99, 107, 98, 108, 111, 99, 107>>

\* "getblock"
CommandGetBlock == <<103, 101, 116, 98, 108, 111, 99, 107>>

\* "block"
CommandBlock == <<98, 108, 111, 99, 107>>

\* "viod"
CommandVoid == <<118, 105, 111, 100>>

\* "inv"
CommandInv == <<105, 110, 118>>

\* "getblocks"
CommandGetBlocks == <<103, 101, 116, 98, 108, 111, 99, 107, 115>>

\* "getblocksup"
CommandGetBlocksUpper == <<103, 101, 116, 98, 108, 111, 99, 107, 115, 117, 112>>

\* "getdata"
CommandGetData == <<103, 101, 116, 100, 97, 116, 97>>

\* "tx"
CommandTx == <<116, 120>>

\* "version"
CommandVersion == <<118, 101, 114, 115, 105, 111, 110>>

\* "gethistory"
CommandGetHistory == <<103, 101, 116, 104, 105, 115, 116, 111, 114, 121>>

\* "txdata"
CommandTxData == <<116, 120, 100, 97, 116, 97>>

\* "txcurrequest"
CommandTxCurRequest == <<116, 120, 99, 117, 114, 114, 101, 113, 117, 101, 115, 116>>

\* "txsqlrequest"
CommandTxSQLRequest == <<116, 120, 115, 113, 108, 114, 101, 113, 117, 101, 115, 116>>

\* "getunspent"
CommandGetUnspent == <<103, 101, 116, 117, 110, 115, 112, 101, 110, 116>>

\* "getnodes"
CommandGetNodes == <<103, 101, 116, 110, 111, 100, 101, 115>>

\* "addnode"
CommandAddNode == <<97, 100, 100, 110, 111, 100, 101>>

\* "removenode"
CommandRemoveNode == <<114, 101, 109, 111, 118, 101, 110, 111, 100, 101>>

-----------------------------------------------------------------------------
(* Input sets *)

\* lib/net NodeAddr
NodeAddr(host, port) == [Host |-> host, Port |-> port]

\* the ports within PortWindow of 0, of the lower bound and of the upper bound
Ports ==
    ((0 - PortWindow)..PortWindow) \cup ((1024 - PortWindow)..(1024 + PortWindow))
        \cup ((65536 - PortWindow)..(65536 + PortWindow))

Hosts == {<<>>, HostLocal, HostPeer}

\* the bytes bodies are made of
BodyBytes == {0, 97}

Bodies == SeqsUpTo(BodyBytes, MaxBody)

\* payload objects handed to the builder
DataObjects == {NilData} \cup {Object(b, TRUE) : b \in Bodies} \cup {Object(<<>>, FALSE)}

\* authorization tokens: "", "s3", "secret", "twelve-chars" (all fit the fixed width)
AuthStrs ==
    {<<>>, <<115, 51>>, <<115, 101, 99, 114, 101, 116>>,
     <<116, 119, 101, 108, 118, 101, 45, 99, 104, 97, 114, 115>>}

\* command names handed to the builder: "", and names of 2, 8 and 12 characters
BuildCommands == {<<>>, CommandTx, CommandGetBlock, CommandTxCurRequest}

\* extra segments handed to doBuildCommandData
Extras == Bodies \cup {CommandToBytes(<<115, 51>>)}

-----------------------------------------------------------------------------
(* State *)

\* a result object of the caller: nil, or a pointer to a value not yet filled
NoOut == [kind |-> "nil", val |-> <<>>, set |-> FALSE]

NewOut == [kind |-> "ptr", val |-> <<>>, set |-> FALSE]

\* a dispatcher call that has not started
IdleCall ==
    [pc |-> "idle", op |-> "", addr |-> NodeAddr(<<>>, 0), request |-> <<>>,
     buildErr |-> Nil, out |-> NoOut,
     inner |-> Nil, err |-> Nil, val |-> <<>>]

\* no socket. dials, writes and reads count the dial attempts, the writes and
\* the reads of the call; sent is what the peer was sent, resp what it sent
\* back so far; readEnd tells how the read ended: at the end of the stream
\* ("eof") or with an error ("error"); writeEnd how the write ended ("ok",
\* "error"); fd is the descriptor of the socket the dial opened
NoConn ==
    [state |-> "none", addr |-> NodeAddr(<<>>, 0), dials |-> 0, sent |-> <<>>,
     writes |-> 0, resp |-> <<>>, peerClosed |-> FALSE, reads |-> 0,
     readEnd |-> "none", writeEnd |-> "none", fd |-> 0]

CallIds == {1, 2}

\* the statement kinds of package lib
QueryKindSelect == "select"

QueryKindUpdate == "update"

QueryKindInsert == "insert"

QueryKindDelete == "delete"

QueryKindCreate == "create"

QueryKindDrop == "drop"

\* a QueryParsed value: its fields, and behind Structure what the parser's
\* GetKind, GetTable and GetComments return
QueryParsed(kind, table, comments, keyCol, keyVal) ==
    [SQL |-> <<>>, PubKey |-> <<>>, Signature |-> <<>>, TransactionBytes |-> <<>>,
     KeyCol |-> keyCol, KeyVal |-> keyVal, RowBeforeQuery |-> <<>>,
     Structure |-> [set |-> TRUE, Kind |-> kind, Table |-> table, Comments |-> comments]]

\* the Go zero value of QueryParsed: no Structure
ZeroQuery ==
    [SQL |-> <<>>, PubKey |-> <<>>, Signature |-> <<>>, TransactionBytes |-> <<>>,
     KeyCol |-> <<>>, KeyVal |-> <<>>, RowBeforeQuery |-> <<>>,
     Structure |-> [set |-> FALSE, Kind |-> "", Table |-> <<>>, Comments |-> <<>>]]

\* no method of QueryParsed has been called: fn is the method called last,
\* recv the receiver it ran on as it is after the call, and the other fields
\* what the method returned
NoRes ==
    [fn |-> "none", recv |-> ZeroQuery, bool |-> FALSE, text |-> <<>>, err |-> Nil,
     PubKey |-> <<>>, Signature |-> <<>>, TransactionBytes |-> <<>>]

\* the NodeClient value before any setter ran: NodeAddress and NodeAuthStr are
\* Go zero values, the other fields are whatever the owner put there
InitClient ==
    /\ client = [DataDir |-> "datadir", NodeAddress |-> NodeAddr(<<>>, 0),
                 Address |-> "wallet", Logger |-> "logger", NodeNet |-> "nodenet",
                 NodeAuthStr |-> <<>>]
    /\ chk = [called |-> FALSE, address |-> NodeAddr(<<>>, 0), err |-> Nil]
    /\ built = [fn |-> "none", command |-> <<>>, data |-> NilData, extra |-> <<>>,
                request |-> <<>>, err |-> Nil]
    /\ call = [c \in CallIds |-> IdleCall]
    /\ conn = [c \in CallIds |-> NoConn]

\* the dispatcher before any call; no query has been parsed
Init ==
    /\ InitClient
    /\ qp = ZeroQuery
    /\ res = NoRes

-----------------------------------------------------------------------------
(* Setters *)

\* SetAuthStr
SetAuthStr(auth) ==
    /\ client' = [client EXCEPT !.NodeAuthStr = auth]
    /\ UNCHANGED <<chk, built, call, conn, qp, res>>

\* faulty variant of SetNodeAddress: it also clears the wallet address
MutSetNodeAddressClearsAddress(address) ==
    /\ client' = [client EXCEPT !.NodeAddress = address, !.Address = ""]
    /\ UNCHANGED <<chk, built, call, conn, qp, res>>

\* SetNodeAddress
SetNodeAddress(address) ==
    /\ client' = [client EXCEPT !.NodeAddress = address]
    /\ UNCHANGED <<chk, built, call, conn, qp, res>>

-----------------------------------------------------------------------------
(* Direct calls of the address check and of the builders *)

\* a call of CheckNodeAddress, its argument and result recorded in chk
CallCheckNodeAddress(address) ==
    /\ chk' = [called |-> TRUE, address |-> address, err |-> CheckNodeAddress(address)]
    /\ UNCHANGED <<client, built, call, conn, qp, res>>

\* a call of doBuildCommandData, its arguments and results recorded in built
CallDoBuildCommandData(command, data, extra) ==
    /\ LET r == doBuildCommandData(command, data, extra)
       IN  built' = [fn |-> "doBuildCommandData", command |-> command, data |-> data,
                     extra |-> extra, request |-> r.request, err |-> r.err]
    /\ UNCHANGED <<client, chk, call, conn, qp, res>>

\* a call of BuildCommandData
CallBuildCommandData(command, data) ==
    /\ LET r == BuildCommandData(command, data)
       IN  built' = [fn |-> "BuildCommandData", command |-> command, data |-> data,
                     extra |-> <<>>, request |-> r.request, err |-> r.err]
    /\ UNCHANGED <<client, chk, call, conn, qp, res>>

\* a call of BuildCommandDataWithAuth; extra records the token the dispatcher held
CallBuildCommandDataWithAuth(command, data) ==
    /\ LET r == BuildCommandDataWithAuth(client, command, data)
       IN  built' = [fn |-> "BuildCommandDataWithAuth", command |-> command,
                     data |-> data, extra |-> client.NodeAuthStr,
                     request |-> r.request, err |-> r.err]
    /\ UNCHANGED <<client, chk, call, conn, qp, res>>

\* The address check on its own
NextAddr == \E h \in Hosts, p \in Ports : CallCheckNodeAddress(NodeAddr(h, p))

SpecAddr == Init /\ [][NextAddr]_vars

\* The builders and the token setter on their own
NextBuild ==
    \/ \E t \in AuthStrs : SetAuthStr(t)
    \/ \E cmd \in BuildCommands, d \in DataObjects, x \in Extras :
           CallDoBuildCommandData(cmd, d, x)
    \/ \E cmd \in BuildCommands, d \in DataObjects : CallBuildCommandData(cmd, d)
    \/ \E cmd \in BuildCommands, d \in DataObjects : CallBuildCommandDataWithAuth(cmd, d)

SpecBuild == Init /\ [][NextBuild]_vars

-----------------------------------------------------------------------------
(* The command operations: what each Send* method builds, where it sends it,  *)
(* whether it checks the builder's error, whether it passes a result object,  *)
(* and the text it puts before an error it returns                            *)

OpRecord(command, mode, build, hasData, target, checksBuild, out, wraps, prefix) ==
    [command |-> command, mode |-> mode, build |-> build, hasData |-> hasData,
     target |-> target, checksBuild |-> checksBuild, out |-> out, wraps |-> wraps,
     prefix |-> prefix]

SendVoid ==
    OpRecord(CommandVoid, "void", "raw", FALSE, "arg", TRUE, FALSE,
             FALSE, <<>>)

SendAddrList ==
    OpRecord(CommandAddresses, "void", "plain", TRUE, "arg", TRUE, FALSE,
             FALSE, <<>>)

SendGetBlock ==
    OpRecord(CommandGetBlock, "wait", "plain", TRUE, "arg", TRUE, TRUE,
             FALSE, <<>>)

SendBlock ==
    OpRecord(CommandBlock, "void", "plain", TRUE, "arg", TRUE, FALSE,
             FALSE, <<>>)

SendInv ==
    OpRecord(CommandInv, "void", "plain", TRUE, "arg", TRUE, FALSE,
             FALSE, <<>>)

SendGetBlocks ==
    OpRecord(CommandGetBlocks, "void", "plain", TRUE, "arg", TRUE, FALSE,
             FALSE, <<>>)

SendGetBlocksUpper ==
    OpRecord(CommandGetBlocksUpper, "void", "plain", TRUE, "arg", TRUE, FALSE,
             FALSE, <<>>)

SendGetFirstBlocks ==
    OpRecord(CommandGetFirstBlocks, "wait", "plain", FALSE, "arg", TRUE, TRUE,
             FALSE, <<>>)

SendGetConsensusData ==
    OpRecord(CommandGetConsensusData, "wait", "plain", FALSE, "arg", TRUE, TRUE,
             FALSE, <<>>)

SendGetData ==
    OpRecord(CommandGetData, "void", "plain", TRUE, "arg", TRUE, FALSE,
             FALSE, <<>>)

SendGetTransaction ==
    OpRecord(CommandGetTransaction, "wait", "plain", TRUE, "arg", TRUE, TRUE,
             FALSE, <<>>)

SendCheckBlock ==
    OpRecord(CommandCheckBlock, "wait", "plain", TRUE, "arg", TRUE, TRUE,
             FALSE, <<>>)

SendTx ==
    OpRecord(CommandTx, "void", "plain", TRUE, "arg", TRUE, FALSE,
             FALSE, <<>>)

SendVersion ==
    OpRecord(CommandVersion, "void", "plain", TRUE, "arg", TRUE, FALSE,
             FALSE, <<>>)

SendGetHistory ==
    OpRecord(CommandGetHistory, "wait", "plain", TRUE, "arg", TRUE, TRUE,
             FALSE, <<>>)

SendNewTransactionData ==
    OpRecord(CommandTxData, "wait", "plain", TRUE, "arg", TRUE, TRUE,
             FALSE, <<>>)

SendRequestNewCurrencyTransaction ==
    OpRecord(CommandTxCurRequest, "wait", "plain", TRUE, "arg", TRUE, TRUE,
             FALSE, <<>>)

SendRequestNewSQLTransaction ==
    OpRecord(CommandTxSQLRequest, "wait", "plain", TRUE, "arg", TRUE, TRUE,
             FALSE, <<>>)

SendGetUnspent ==
    OpRecord(CommandGetUnspent, "wait", "plain", TRUE, "arg", FALSE, TRUE,
             FALSE, <<>>)

SendGetBalance ==
    OpRecord(CommandGetBalance, "wait", "plain", TRUE, "arg", FALSE, TRUE,
             FALSE, <<>>)

SendGetNodes ==
    OpRecord(CommandGetNodes, "wait", "plain", FALSE, "self", FALSE, TRUE,
             TRUE, TxtGetNodesError)

SendAddNode ==
    OpRecord(CommandAddNode, "wait", "auth", TRUE, "self", FALSE, FALSE,
             TRUE, TxtAddNodeError)

SendRemoveNode ==
    OpRecord(CommandRemoveNode, "wait", "auth", TRUE, "self", FALSE, FALSE,
             TRUE, TxtRemoveNodeError)

SendGetState ==
    OpRecord(CommandGetState, "wait", "auth", FALSE, "self", FALSE, TRUE,
             TRUE, TxtGetStateError)

SendGetUpdates ==
    OpRecord(CommandGetUpdates, "wait", "plain", TRUE, "arg", TRUE, TRUE,
             FALSE, <<>>)

OpNames ==
    {"SendVoid", "SendAddrList", "SendGetBlock",
     "SendBlock", "SendInv", "SendGetBlocks",
     "SendGetBlocksUpper", "SendGetFirstBlocks", "SendGetConsensusData",
     "SendGetData", "SendGetTransaction", "SendCheckBlock",
     "SendTx", "SendVersion", "SendGetHistory",
     "SendNewTransactionData", "SendRequestNewCurrencyTransaction", "SendRequestNewSQLTransaction",
     "SendGetUnspent", "SendGetBalance", "SendGetNodes",
     "SendAddNode", "SendRemoveNode", "SendGetState",
     "SendGetUpdates"}

OpOf(name) ==
    CASE name = "SendVoid" -> SendVoid
      [] name = "SendAddrList" -> SendAddrList
      [] name = "SendGetBlock" -> SendGetBlock
      [] name = "SendBlock" -> SendBlock
      [] name = "SendInv" -> SendInv
      [] name = "SendGetBlocks" -> SendGetBlocks
      [] name = "SendGetBlocksUpper" -> SendGetBlocksUpper
      [] name = "SendGetFirstBlocks" -> SendGetFirstBlocks
      [] name = "SendGetConsensusData" -> SendGetConsensusData
      [] name = "SendGetData" -> SendGetData
      [] name = "SendGetTransaction" -> SendGetTransaction
      [] name = "SendCheckBlock" -> SendCheckBlock
      [] name = "SendTx" -> SendTx
      [] name = "SendVersion" -> SendVersion
      [] name = "SendGetHistory" -> SendGetHistory
      [] name = "SendNewTransactionData" -> SendNewTransactionData
      [] name = "SendRequestNewCurrencyTransaction" -> SendRequestNewCurrencyTransaction
      [] name = "SendRequestNewSQLTransaction" -> SendRequestNewSQLTransaction
      [] name = "SendGetUnspent" -> SendGetUnspent
      [] name = "SendGetBalance" -> SendGetBalance
      [] name = "SendGetNodes" -> SendGetNodes
      [] name = "SendAddNode" -> SendAddNode
      [] name = "SendRemoveNode" -> SendRemoveNode
      [] name = "SendGetState" -> SendGetState
      [] name = "SendGetUpdates" -> SendGetUpdates

-----------------------------------------------------------------------------
(* The two socket paths *)

RECURSIVE Itoa(_)
\* strconv.Itoa for a non-negative number
Itoa(n) == IF n < 10 THEN <<48 + n>> ELSE Itoa(n \div 10) \o <<48 + (n % 10)>>

\* lib/net NodeAddrToString: host:port
NodeAddrToString(addr) == addr.Host \o <<58>> \o Itoa(addr.Port)

\* an error of the socket layer (*net.OpError)
OpError(text) == [type |-> "OpError", msg |-> text]

\* faulty variant of ReadResponse: only status byte 0 is taken as a failure
MutReadResponseAnyNonZero(response, datapayload) ==
    IF Len(response) = 0
    THEN [err |-> NewNoResponseError(TxtNoResponse), out |-> datapayload]
    ELSE IF response[1] = 0
    THEN LET d == GobDecode("string", Tail(response))
         IN  IF ~d.ok
             THEN [err |-> NewCanNotParseResponseError(d.err), out |-> datapayload]
             ELSE [err |-> ErrorsNew(d.val), out |-> datapayload]
    ELSE IF datapayload.kind # "nil"
    THEN LET d == GobDecode("bytes", Tail(response))
         IN  IF ~d.ok
             THEN [err |-> NewCanNotParseResponseError(d.err), out |-> datapayload]
             ELSE [err |-> Nil, out |-> [datapayload EXCEPT !.val = d.val, !.set = TRUE]]
    ELSE [err |-> Nil, out |-> datapayload]

\* faulty variant of ReadResponse: an empty response is taken as a success
MutReadResponseEmptyOk(response, datapayload) ==
    IF Len(response) = 0
    THEN [err |-> Nil, out |-> datapayload]
    ELSE IF response[1] # 1
    THEN LET d == GobDecode("string", Tail(response))
         IN  IF ~d.ok
             THEN [err |-> NewCanNotParseResponseError(d.err), out |-> datapayload]
             ELSE [err |-> ErrorsNew(d.val), out |-> datapayload]
    ELSE IF datapayload.kind # "nil"
    THEN LET d == GobDecode("bytes", Tail(response))
         IN  IF ~d.ok
             THEN [err |-> NewCanNotParseResponseError(d.err), out |-> datapayload]
             ELSE [err |-> Nil, out |-> [datapayload EXCEPT !.val = d.val, !.set = TRUE]]
    ELSE [err |-> Nil, out |-> datapayload]

\* SendDataWaitResponse once ReadAll has returned the whole response without an
\* error: the error it returns and the result object as it leaves it
ReadResponse(response, datapayload) ==
    IF Len(response) = 0
    THEN [err |-> NewNoResponseError(TxtNoResponse), out |-> datapayload]
    ELSE IF response[1] # 1
    THEN LET d == GobDecode("string", Tail(response))
         IN  IF ~d.ok
             THEN [err |-> NewCanNotParseResponseError(d.err), out |-> datapayload]
             ELSE [err |-> ErrorsNew(d.val), out |-> datapayload]
    ELSE IF datapayload.kind # "nil"
    THEN LET d == GobDecode("bytes", Tail(response))
         IN  IF ~d.ok
             THEN [err |-> NewCanNotParseResponseError(d.err), out |-> datapayload]
             ELSE [err |-> Nil, out |-> [datapayload EXCEPT !.val = d.val, !.set = TRUE]]
    ELSE [err |-> Nil, out |-> datapayload]

\* faulty variant of OpReturnError: the wrapping methods drop the error's text
MutOpErrorDropText(op, inner) ==
    IF inner = Nil THEN Nil
    ELSE IF op.wraps THEN ErrorsNew(op.prefix)
    ELSE inner

\* faulty variant of OpReturnError: every method returns a new plain error made
\* of the error's text
MutOpErrorWrapAll(op, inner) ==
    IF inner = Nil THEN Nil
    ELSE ErrorsNew(op.prefix \o inner.msg)

\* the error a Send* method returns, given the error of SendData or
\* SendDataWaitResponse: as it is, or as a new error with the method's text
\* put before the error's text
OpReturnError(op, inner) ==
    IF inner = Nil THEN Nil
    ELSE IF op.wraps THEN ErrorsNew(op.prefix \o inner.msg)
    ELSE inner

\* the request a Send* method builds on the dispatcher cl, and the builder's error
OpBuild(cl, op, data) ==
    LET d == IF op.hasData THEN data ELSE NilData
    IN  IF op.build = "raw" THEN [request |-> CommandToBytes(op.command), err |-> Nil]
        ELSE IF op.build = "auth" THEN BuildCommandDataWithAuth(cl, op.command, d)
        ELSE BuildCommandData(op.command, d)

\* the descriptor of a newly opened socket: the lowest one no open socket has
FreeFd ==
    CHOOSE n \in 1..Cardinality(CallIds) :
        /\ \A d \in CallIds : conn[d].state = "open" => conn[d].fd # n
        /\ \A m \in 1..(n - 1) : \E d \in CallIds : conn[d].state = "open" /\ conn[d].fd = m

\* faulty variant of Finish: the call returns without closing its socket
MutFinishNoClose(c, inner, out, cn) ==
    /\ call' = [call EXCEPT ![c].pc = "done", ![c].inner = inner,
                            ![c].err = OpReturnError(OpOf(call[c].op), inner),
                            ![c].out = out,
                            ![c].val = IF inner = Nil THEN out.val ELSE <<>>]
    /\ conn' = [conn EXCEPT ![c] = cn]

\* the call c returns from SendData / SendDataWaitResponse with error inner and
\* result object out, and from the Send* method with it; cn is the call's
\* socket after the step, which the deferred conn.Close closes if it is open
Finish(c, inner, out, cn) ==
    /\ call' = [call EXCEPT ![c].pc = "done", ![c].inner = inner,
                            ![c].err = OpReturnError(OpOf(call[c].op), inner),
                            ![c].out = out,
                            ![c].val = IF inner = Nil THEN out.val ELSE <<>>]
    /\ conn' = [conn EXCEPT ![c] =
                   [cn EXCEPT !.state = IF cn.state = "open" THEN "closed" ELSE cn.state]]

\* A Send* method up to its call of SendData or SendDataWaitResponse: it builds
\* the request; the methods that check the builder's error return it
Call(c, name, addr, data) ==
    /\ call[c].pc = "idle"
    /\ LET op == OpOf(name)
           b == OpBuild(client, op, data)
           target == IF op.target = "self" THEN client.NodeAddress ELSE addr
       IN  call' = [call EXCEPT ![c] =
                IF op.checksBuild /\ b.err # Nil
                THEN [IdleCall EXCEPT !.pc = "done", !.op = name, !.addr = target,
                                      !.buildErr = b.err, !.err = b.err]
                ELSE [IdleCall EXCEPT !.pc = "check", !.op = name, !.addr = target,
                                      !.request = b.request, !.buildErr = b.err,
                                      !.out = IF op.out THEN NewOut ELSE NoOut]]
    /\ UNCHANGED <<client, chk, built, conn, qp, res>>

\* SendData: the address check
SendDataCheck(c) ==
    /\ call[c].pc = "check"
    /\ OpOf(call[c].op).mode = "void"
    /\ LET err == CheckNodeAddress(call[c].addr)
       IN  IF err # Nil
           THEN Finish(c, err, call[c].out, conn[c])
           ELSE call' = [call EXCEPT ![c].pc = "dial"] /\ UNCHANGED conn
    /\ UNCHANGED <<client, chk, built, qp, res>>

\* SendData: net.DialTimeout connects, or fails and the call returns
SendDataDial(c) ==
    /\ call[c].pc = "dial"
    /\ OpOf(call[c].op).mode = "void"
    /\ LET cn == [conn[c] EXCEPT !.addr = call[c].addr, !.dials = conn[c].dials + 1]
       IN  \/ /\ call' = [call EXCEPT ![c].pc = "write"]
              /\ conn' = [conn EXCEPT ![c] = [cn EXCEPT !.state = "open", !.fd = FreeFd]]
           \/ Finish(c, NewCanNotConnectError(NodeAddrToString(call[c].addr)
                                                 \o TxtNotAvailable),
                     call[c].out, cn)
    /\ UNCHANGED <<client, chk, built, qp, res>>

\* faulty variant of SendDataWrite: after the write the call waits for the
\* peer's answer as SendDataWaitResponse does
MutSendDataWriteThenRead(c) ==
    /\ call[c].pc = "write"
    /\ OpOf(call[c].op).mode = "void"
    /\ \/ /\ call' = [call EXCEPT ![c].pc = "read"]
          /\ conn' = [conn EXCEPT ![c].sent = call[c].request,
                                  ![c].writes = conn[c].writes + 1,
                                  ![c].writeEnd = "ok"]
       \/ \E k \in {0, Len(call[c].request) \div 2} :
            Finish(c, NewCanNotSendError(TxtBrokenPipe), call[c].out,
                   [conn[c] EXCEPT !.sent = SubSeq(call[c].request, 1, k),
                                   !.writes = conn[c].writes + 1,
                                   !.writeEnd = "error"])
    /\ UNCHANGED <<client, chk, built, qp, res>>

\* SendData: io.Copy writes the request, or fails after writing part of it;
\* either way the call returns
SendDataWrite(c) ==
    /\ call[c].pc = "write"
    /\ OpOf(call[c].op).mode = "void"
    /\ \/ Finish(c, Nil, call[c].out,
                 [conn[c] EXCEPT !.sent = call[c].request, !.writes = conn[c].writes + 1,
                                 !.writeEnd = "ok"])
       \/ \E k \in {0, Len(call[c].request) \div 2} :
            Finish(c, NewCanNotSendError(TxtBrokenPipe), call[c].out,
                   [conn[c] EXCEPT !.sent = SubSeq(call[c].request, 1, k),
                                   !.writes = conn[c].writes + 1,
                                   !.writeEnd = "error"])
    /\ UNCHANGED <<client, chk, built, qp, res>>

\* faulty variant of SendDataWaitResponseCheck: the result of the check is ignored
MutWaitCheckSkipped(c) ==
    /\ call[c].pc = "check"
    /\ OpOf(call[c].op).mode = "wait"
    /\ call' = [call EXCEPT ![c].pc = "dial"]
    /\ UNCHANGED <<client, chk, built, conn, qp, res>>

\* SendDataWaitResponse: the address check
SendDataWaitResponseCheck(c) ==
    /\ call[c].pc = "check"
    /\ OpOf(call[c].op).mode = "wait"
    /\ LET err == CheckNodeAddress(call[c].addr)
       IN  IF err # Nil
           THEN Finish(c, err, call[c].out, conn[c])
           ELSE call' = [call EXCEPT ![c].pc = "dial"] /\ UNCHANGED conn
    /\ UNCHANGED <<client, chk, built, qp, res>>

\* SendDataWaitResponse: dialer.Dial connects, or fails and the call returns
SendDataWaitResponseDial(c) ==
    /\ call[c].pc = "dial"
    /\ OpOf(call[c].op).mode = "wait"
    /\ LET cn == [conn[c] EXCEPT !.addr = call[c].addr, !.dials = conn[c].dials + 1]
       IN  \/ /\ call' = [call EXCEPT ![c].pc = "write"]
              /\ conn' = [conn EXCEPT ![c] = [cn EXCEPT !.state = "open", !.fd = FreeFd]]
           \/ Finish(c, NewCanNotConnectError(NodeAddrToString(call[c].addr)
                                                 \o TxtNotAvailable),
                     call[c].out, cn)
    /\ UNCHANGED <<client, chk, built, qp, res>>

\* SendDataWaitResponse: io.Copy writes the request and the call goes on to
\* read, or fails after writing part of it and the call returns that error
SendDataWaitResponseWrite(c) ==
    /\ call[c].pc = "write"
    /\ OpOf(call[c].op).mode = "wait"
    /\ \/ /\ call' = [call EXCEPT ![c].pc = "read"]
          /\ conn' = [conn EXCEPT ![c].sent = call[c].request,
                                  ![c].writes = conn[c].writes + 1,
                                  ![c].writeEnd = "ok"]
       \/ \E k \in {0, Len(call[c].request) \div 2} :
            Finish(c, OpError(TxtBrokenPipe), call[c].out,
                   [conn[c] EXCEPT !.sent = SubSeq(call[c].request, 1, k),
                                   !.writes = conn[c].writes + 1,
                                   !.writeEnd = "error"])
    /\ UNCHANGED <<client, chk, built, qp, res>>

\* faulty variant of SendDataWaitResponseRead: the read returns as soon as
\* some bytes have arrived, without waiting for the end of the stream
MutReadFirstBytes(c) ==
    /\ call[c].pc = "read"
    /\ LET cn == [conn[c] EXCEPT !.reads = conn[c].reads + 1]
       IN  \/ /\ conn[c].peerClosed \/ conn[c].resp # <<>>
              /\ LET r == ReadResponse(conn[c].resp, call[c].out)
                 IN  Finish(c, r.err, r.out, [cn EXCEPT !.readEnd = "eof"])
           \/ Finish(c, NewCanNotSendError(TxtConnReset), call[c].out,
                     [cn EXCEPT !.readEnd = "error"])
    /\ UNCHANGED <<client, chk, built, qp, res>>

\* SendDataWaitResponse: ioutil.ReadAll returns, at the end of the stream with
\* all the peer sent, or with a read error; the response is decoded and the
\* call returns
SendDataWaitResponseRead(c) ==
    /\ call[c].pc = "read"
    /\ LET cn == [conn[c] EXCEPT !.reads = conn[c].reads + 1]
       IN  \/ /\ conn[c].peerClosed
              /\ LET r == ReadResponse(conn[c].resp, call[c].out)
                 IN  Finish(c, r.err, r.out, [cn EXCEPT !.readEnd = "eof"])
           \/ Finish(c, NewCanNotSendError(TxtConnReset), call[c].out,
                     [cn EXCEPT !.readEnd = "error"])
    /\ UNCHANGED <<client, chk, built, qp, res>>

-----------------------------------------------------------------------------
(* The peer, and the caller *)

\* the bytes a peer answers with
StatusBytes == {0, 1, 2, 255}

\* what a peer sends after the status byte: an encoded value, an encoded
\* error text, a message cut short, a message with a wrong length
ResponseBodies ==
    {GobMessage("bytes", b) : b \in Bodies} \cup {GobMessage("string", b) : b \in Bodies}
        \cup {<<5>>, <<3, 10, 0, 1>>}

\* the peer sends a status byte, or after it a body
PeerSend(c, chunk) ==
    /\ conn[c].state = "open"
    /\ ~conn[c].peerClosed
    /\ \/ Len(conn[c].resp) = 0 /\ chunk \in {<<s>> : s \in StatusBytes}
       \/ Len(conn[c].resp) = 1 /\ chunk \in ResponseBodies
    /\ conn' = [conn EXCEPT ![c].resp = conn[c].resp \o chunk]
    /\ UNCHANGED <<client, chk, built, call, qp, res>>

\* the peer closes the stream
PeerClose(c) ==
    /\ conn[c].state = "open"
    /\ ~conn[c].peerClosed
    /\ conn' = [conn EXCEPT ![c].peerClosed = TRUE]
    /\ UNCHANGED <<client, chk, built, call, qp, res>>

\* the caller has taken the result of the call; the call's record is cleared
Return(c) ==
    /\ call[c].pc = "done"
    /\ call' = [call EXCEPT ![c] = IdleCall]
    /\ conn' = [conn EXCEPT ![c] = NoConn]
    /\ UNCHANGED <<client, chk, built, qp, res>>

\* the addresses calls are made to: a peer, the lowest port the check accepts,
\* a port it rejects, and an address without host
TargetAddrs ==
    {NodeAddr(HostPeer, 20000), NodeAddr(HostPeer, 1024), NodeAddr(HostPeer, 65537),
     NodeAddr(<<>>, 20000)}

\* the addresses the node sets as its own
OwnAddrs == {NodeAddr(HostLocal, 20001), NodeAddr(<<>>, 0)}

\* the payload objects of the command operations
CallData == {Object(<<97>>, TRUE), Object(<<>>, FALSE)}

\* the tokens set on the dispatcher in the full model
CallAuthStrs == {<<>>, <<115, 51>>, <<116, 119, 101, 108, 118, 101, 45, 99, 104, 97, 114, 115>>}

\* one caller at a time
SeqCalls == {1}

Next ==
    \/ \E t \in CallAuthStrs : SetAuthStr(t)
    \/ \E a \in OwnAddrs : SetNodeAddress(a)
    \/ \E c \in SeqCalls, name \in OpNames, a \in TargetAddrs, d \in CallData :
           Call(c, name, a, d)
    \/ \E c \in SeqCalls : SendDataCheck(c)
    \/ \E c \in SeqCalls : SendDataDial(c)
    \/ \E c \in SeqCalls : SendDataWrite(c)
    \/ \E c \in SeqCalls : SendDataWaitResponseCheck(c)
    \/ \E c \in SeqCalls : SendDataWaitResponseDial(c)
    \/ \E c \in SeqCalls : SendDataWaitResponseWrite(c)
    \/ \E c \in SeqCalls : SendDataWaitResponseRead(c)
    \/ \E c \in SeqCalls, chunk \in {<<s>> : s \in StatusBytes} \cup ResponseBodies :
           PeerSend(c, chunk)
    \/ \E c \in SeqCalls : PeerClose(c)
    \/ \E c \in SeqCalls : Return(c)

Spec == Init /\ [][Next]_vars

-----------------------------------------------------------------------------
(* Claims about the address check (SpecAddr) *)

\* C1: CheckNodeAddress succeeds for every address with Port in 1025..65535 and
\* a non-empty Host, and for every Port in that range it fails with the
\* address error when Host is empty.
C1_ValidRangeDecidedByHost ==
    (chk.called /\ chk.address.Port \in 1025..65535)
        => IF chk.address.Host # <<>> THEN chk.err = Nil ELSE AddressInvalid(chk.err)

\* C1 witness: the check accepted the upper end of the range with a host
C1_Witness ==
    chk.called /\ chk.address = NodeAddr(HostLocal, 65535) /\ chk.err = Nil

\* C2: CheckNodeAddress fails with the address error for every Port below 1025
\* (Port = 0 and Port = 1024 included), whatever the Host.
C2_BelowRangeRejected ==
    (chk.called /\ chk.address.Port < 1025) => AddressInvalid(chk.err)

\* C3: CheckNodeAddress fails with the address error for every Port above 65535
\* (Port = 65536 included), whatever the Host.
C3_AboveRangeRejected ==
    (chk.called /\ chk.address.Port > 65535) => AddressInvalid(chk.err)

-----------------------------------------------------------------------------
(* Claims about the envelope (SpecBuild) *)

\* the payload bytes of a payload object: nothing for nil, else its encoding
PayloadOf(data) == IF data.kind = "nil" THEN <<>> ELSE GobEncode(data).bytes

\* the extra segment a recorded builder call handed to doBuildCommandData
ExtraOf(b) ==
    IF b.fn = "BuildCommandDataWithAuth" THEN CommandToBytes(b.extra) ELSE b.extra

\* C4: decoding what doBuildCommandData built, with the inverse of the layout,
\* gives back the command name, the payload bytes and the extra bytes.
C4_EnvelopeRoundTrip ==
    (built.fn = "doBuildCommandData" /\ built.err = Nil)
        => LET d == DecodeEnvelope(built.request)
           IN  /\ d.ok
               /\ d.command = built.command
               /\ d.payload = PayloadOf(built.data)
               /\ d.extra = built.extra

\* C4 witness: a round trip with a 12-character name, a payload and an extra
C4_Witness ==
    /\ built.fn = "doBuildCommandData" /\ built.err = Nil
    /\ built.command = CommandTxCurRequest
    /\ built.data.kind = "obj" /\ Len(built.data.body) > 0
    /\ Len(built.extra) > 0
    /\ DecodeEnvelope(built.request).extra = built.extra

\* C5: every built envelope is the fixed-width identifier, the payload length
\* and the extra length as 4 little-endian bytes each, the payload, the extra;
\* the two length fields are the lengths of payload and extra, and a nil
\* payload object gives a payload length of 0.
C5_EnvelopeLayout ==
    (built.fn # "none" /\ built.err = Nil)
        => LET r == built.request
               p == PayloadOf(built.data)
               x == ExtraOf(built)
               n == Len(built.command)
           IN  /\ Len(r) = CommandLength + 8 + Len(p) + Len(x)
               /\ \A i \in 1..CommandLength :
                      r[i] = IF i <= n THEN built.command[i] ELSE 0
               /\ Uint32(Slice(r, CommandLength + 1, CommandLength + 4)) = Len(p)
               /\ Uint32(Slice(r, CommandLength + 5, CommandLength + 8)) = Len(x)
               /\ \A i \in 1..Len(p) : r[CommandLength + 8 + i] = p[i]
               /\ \A i \in 1..Len(x) : r[CommandLength + 8 + Len(p) + i] = x[i]
               /\ (built.data.kind = "nil"
                     => Uint32(Slice(r, CommandLength + 1, CommandLength + 4)) = 0)

\* C5 witness: an envelope built from a nil payload object with an extra segment
C5_Witness ==
    /\ built.fn = "doBuildCommandData" /\ built.err = Nil
    /\ built.data.kind = "nil" /\ Len(built.extra) = MaxBody
    /\ Len(built.request) = CommandLength + 8 + MaxBody

-----------------------------------------------------------------------------
(* Claims about the command operations and the socket paths (Spec) *)

\* the call c has got past the Send* method's builder into SendData or
\* SendDataWaitResponse and past the address check there
Validated(c) ==
    /\ call[c].pc \notin {"idle", "check"}
    /\ ~(OpOf(call[c].op).checksBuild /\ call[c].buildErr # Nil)

\* the call c has returned after ReadAll reached the end of the stream
ReadToEnd(c) == call[c].pc = "done" /\ conn[c].readEnd = "eof"

\* C6 (as amended): whatever tokens SetAuthStr has set, a request built with
\* BuildCommandDataWithAuth (addnode, removenode, getstate) carries as its extra
\* segment the token the dispatcher holds at that moment, zero-padded to the
\* fixed command width, so ExtraLength is that width; a request built with
\* BuildCommandData carries ExtraLength = 0 and no extra bytes.
C6_AuthExtraIsPaddedToken ==
    [][\A c \in CallIds :
          (/\ call[c].pc = "idle" /\ call'[c].pc = "check"
           /\ call'[c].buildErr = Nil
           /\ OpOf(call'[c].op).build # "raw")
          => LET d == DecodeEnvelope(call'[c].request)
             IN  /\ d.ok
                 /\ IF call'[c].op \in {"SendAddNode", "SendRemoveNode", "SendGetState"}
                    THEN /\ d.extraLength = CommandLength
                         /\ d.extra = client.NodeAuthStr
                                          \o Zeros(CommandLength - Len(client.NodeAuthStr))
                    ELSE d.extraLength = 0 /\ d.extra = <<>>]_vars

\* C6 witness: an addnode request carrying the two-character token, padded
C6_Witness ==
    /\ call[1].op = "SendAddNode" /\ call[1].pc = "check" /\ call[1].buildErr = Nil
    /\ client.NodeAuthStr = <<115, 51>>
    /\ DecodeEnvelope(call[1].request).extra = <<115, 51, 0, 0, 0, 0, 0, 0, 0, 0, 0, 0>>

\* C6 (as stated): the extra segment of a request built with
\* BuildCommandDataWithAuth is exactly the token most recently set, and
\* ExtraLength is the token's length; BuildCommandData gives ExtraLength = 0.
C6_AuthExtraIsToken ==
    [][\A c \in CallIds :
          (/\ call[c].pc = "idle" /\ call'[c].pc = "check"
           /\ call'[c].buildErr = Nil
           /\ OpOf(call'[c].op).build # "raw")
          => LET d == DecodeEnvelope(call'[c].request)
             IN  /\ d.ok
                 /\ IF call'[c].op \in {"SendAddNode", "SendRemoveNode", "SendGetState"}
                    THEN /\ d.extraLength = Len(client.NodeAuthStr)
                         /\ d.extra = client.NodeAuthStr
                    ELSE d.extraLength = 0 /\ d.extra = <<>>]_vars

\* C7: when the address check fails, SendData and SendDataWaitResponse return
\* its error without a dial, a write or a read; every dial, write and read is
\* on an address that passed the check.
C7_NoSocketOnInvalidAddress ==
    \A c \in CallIds :
        /\ (conn[c].dials > 0 \/ conn[c].state # "none")
              => CheckNodeAddress(conn[c].addr) = Nil
        /\ (Validated(c) /\ CheckNodeAddress(call[c].addr) # Nil)
              => /\ call[c].pc = "done"
                 /\ call[c].inner = CheckNodeAddress(call[c].addr)
                 /\ AddressInvalid(call[c].inner)
                 /\ conn[c].state = "none" /\ conn[c].dials = 0
                 /\ conn[c].writes = 0 /\ conn[c].sent = <<>>
                 /\ conn[c].reads = 0

\* C7 witness: a wait-response call returned the address error, no socket opened
C7_Witness ==
    /\ call[1].pc = "done" /\ OpOf(call[1].op).mode = "wait"
    /\ call[1].buildErr = Nil
    /\ AddressInvalid(call[1].inner) /\ conn[1].dials = 0

\* C8: when the peer closes the stream having sent nothing, SendDataWaitResponse
\* returns the NoResponse error, for every command, with or without a result
\* object; the call never succeeds.
C8_ZeroBytesIsNoResponse ==
    \A c \in CallIds :
        (ReadToEnd(c) /\ conn[c].resp = <<>>)
            => /\ call[c].inner.type = "NoResponseError"
               /\ call[c].err # Nil

\* C8 witness: addnode (no result object) got an empty response
C8_Witness ==
    /\ ReadToEnd(1) /\ conn[1].resp = <<>>
    /\ call[1].op = "SendAddNode" /\ call[1].out.kind = "nil"
    /\ call[1].inner.type = "NoResponseError"

\* C9: when the peer sent status byte 1 and then the encoding of a value, the
\* call succeeds and the result object holds that value (with no result object
\* it just succeeds); when it sent any other status byte and then the encoding
\* of a text, the call fails with an error of exactly that text; with a status
\* byte other than 1 the result object is left as it was.
C9_StatusByteDecides ==
    \A c \in CallIds :
        (ReadToEnd(c) /\ Len(conn[c].resp) > 0)
            => LET status == conn[c].resp[1]
                   body == Tail(conn[c].resp)
               IN  /\ \A v \in Bodies :
                        (status = 1 /\ body = GobMessage("bytes", v)
                           /\ call[c].out.kind = "ptr")
                          => /\ call[c].inner = Nil
                             /\ call[c].out.set /\ call[c].out.val = v
                   /\ (status = 1 /\ call[c].out.kind = "nil") => call[c].inner = Nil
                   /\ \A m \in Bodies :
                        (status # 1 /\ body = GobMessage("string", m))
                          => call[c].inner = ErrorsNew(m)
                   /\ status # 1
                        => /\ call[c].inner # Nil
                           /\ ~call[c].out.set /\ call[c].out.val = <<>>

\* C9 witness: a call returned the value the peer encoded after status byte 1
C9_Witness ==
    /\ ReadToEnd(1) /\ conn[1].resp = <<1>> \o GobMessage("bytes", <<97, 0>>)
    /\ call[1].inner = Nil /\ call[1].out.val = <<97, 0>>

\* the condition of C10: the peer answered the call c with a status byte other
\* than 1 and the encoding of the text m
RemoteErrorText(c, m) ==
    /\ ReadToEnd(c) /\ Len(conn[c].resp) > 0
    /\ conn[c].resp[1] # 1
    /\ Tail(conn[c].resp) = GobMessage("string", m)

\* C10 (as amended): when the peer answers with a status byte other than 1 and
\* error text m, the error of getnodes, addnode, removenode and getstate has
\* the text m preceded by "Get Nodes Response Error: ", "Add Node Response
\* Error: ", "Remove Node Response Error: ", "gettig state error: "; the error
\* of every other synchronous command operation has exactly the text m.
C10_RemoteTextWithPrefix ==
    \A c \in CallIds : \A m \in Bodies :
        RemoteErrorText(c, m)
            => call[c].err.msg =
                  (CASE call[c].op = "SendGetNodes" -> TxtGetNodesError \o m
                     [] call[c].op = "SendAddNode" -> TxtAddNodeError \o m
                     [] call[c].op = "SendRemoveNode" -> TxtRemoveNodeError \o m
                     [] call[c].op = "SendGetState" -> TxtGetStateError \o m
                     [] OTHER -> m)

\* C10 witness: removenode returned the peer's text behind its prefix
C10_Witness ==
    /\ RemoteErrorText(1, <<97>>)
    /\ call[1].op = "SendRemoveNode"
    /\ call[1].err.msg = TxtRemoveNodeError \o <<97>>

\* C10 (as stated): when the peer answers with a status byte other than 1 and
\* error text m, the error the synchronous command operation returns has
\* exactly the text m.
C10_RemoteTextVerbatim ==
    \A c \in CallIds : \A m \in Bodies :
        RemoteErrorText(c, m) => call[c].err.msg = m

\* ---------------------------------------------------------------------------
\* Write failures and the kinds of network errors

\* the call c has returned from a write that failed on a connected socket
WriteFailed(c) ==
    /\ call[c].pc = "done"
    /\ conn[c].dials = 1
    /\ conn[c].writeEnd = "error"

\* C11: in SendData and in SendDataWaitResponse alike, a call whose write failed
\* on an established connection returns an error of the kind CanNotSendError.
C11_WriteFailureIsCannotSend ==
    \A c \in CallIds :
        WriteFailed(c) => call[c].inner.type = "CanNotSendError"

\* the kinds of the network errors
NetworkKinds == {"CanNotConnectError", "CanNotSendError", "NoResponseError"}

\* C12 as stated: whenever SendData or SendDataWaitResponse fails with a network
\* error, the error the Send* method returns is of that same kind.
C12_NetworkKindKept ==
    \A c \in CallIds :
        (call[c].pc = "done" /\ call[c].inner.type \in NetworkKinds)
            => call[c].err.type = call[c].inner.type

\* the four methods that return a new error made of their text and the error's
WrappingOps == {"SendGetNodes", "SendAddNode", "SendRemoveNode", "SendGetState"}

\* C12, amended: a network error of SendData or SendDataWaitResponse reaches the
\* caller unchanged, kind included, from every method but SendGetNodes,
\* SendAddNode, SendRemoveNode and SendGetState; these four return a plain
\* error (errors.New) whose text is the method's prefix and the error's text.
C12_NetworkKindKeptUnlessWrapped ==
    \A c \in CallIds :
        (call[c].pc = "done" /\ call[c].inner.type \in NetworkKinds)
            => IF call[c].op \in WrappingOps
               THEN /\ call[c].err.type = "errorString"
                    /\ call[c].err.msg = OpOf(call[c].op).prefix \o call[c].inner.msg
               ELSE call[c].err = call[c].inner

\* a method outside the four has returned a NoResponseError as it got it
C12_Witness ==
    \E c \in CallIds :
        /\ call[c].pc = "done"
        /\ call[c].op \notin WrappingOps
        /\ call[c].inner.type = "NoResponseError"
        /\ call[c].err.type = "NoResponseError"

-----------------------------------------------------------------------------
(* Concurrent calls on one dispatcher (SpecConc) *)

\* the methods, addresses, payloads and peer answers of the concurrent model
ConcOps == {"SendTx", "SendGetBlock"}

ConcAddrs == {NodeAddr(HostPeer, 20000), NodeAddr(<<>>, 20000)}

ConcData == {Object(<<97>>, TRUE)}

ConcChunks == {<<1>>, <<0>>, GobMessage("bytes", <<97>>), GobMessage("string", <<97>>)}

\* the calls of CallIds run at the same time, their steps in any order
NextConc ==
    \/ \E c \in CallIds, name \in ConcOps, a \in ConcAddrs, d \in ConcData :
           Call(c, name, a, d)
    \/ \E c \in CallIds : SendDataCheck(c)
    \/ \E c \in CallIds : SendDataDial(c)
    \/ \E c \in CallIds : SendDataWrite(c)
    \/ \E c \in CallIds : SendDataWaitResponseCheck(c)
    \/ \E c \in CallIds : SendDataWaitResponseDial(c)
    \/ \E c \in CallIds : SendDataWaitResponseWrite(c)
    \/ \E c \in CallIds : SendDataWaitResponseRead(c)
    \/ \E c \in CallIds, chunk \in ConcChunks : PeerSend(c, chunk)
    \/ \E c \in CallIds : PeerClose(c)
    \/ \E c \in CallIds : Return(c)

SpecConc == Init /\ [][NextConc]_vars

\* the calls that have started and not yet returned
InFlight == {c \in CallIds : call[c].pc \in {"check", "dial", "write", "read"}}

\* the calls whose socket is open
OpenSockets == {c \in CallIds : conn[c].state = "open"}

\* C13: under every interleaving of concurrent calls, a call dials at most
\* once, an open socket belongs to exactly one call in flight (no two calls hold
\* the same descriptor), and a call that has returned has closed the socket it
\* opened: there are never more open sockets than calls in flight, and none
\* when no call is in flight.
C13_SocketPerCall ==
    /\ \A c \in CallIds :
          /\ conn[c].dials <= 1
          /\ conn[c].state = "open" => c \in InFlight
          /\ (call[c].pc = "done" /\ conn[c].dials = 1 /\ conn[c].fd # 0)
                 => conn[c].state = "closed"
    /\ \A c, d \in CallIds :
          (c # d /\ conn[c].state = "open" /\ conn[d].state = "open")
              => conn[c].fd # conn[d].fd
    /\ Cardinality(OpenSockets) <= Cardinality(InFlight)
    /\ InFlight = {} => OpenSockets = {}

\* two calls are in flight with a socket each, and a call that had a socket
\* has returned while the other still holds its own
C13_Witness ==
    \E c, d \in CallIds :
        /\ c # d
        /\ call[c].pc = "done" /\ conn[c].state = "closed"
        /\ conn[d].state = "open" /\ call[d].pc = "read"
        /\ conn[d].fd = 2

-----------------------------------------------------------------------------
(* Fire-and-forget and wait-response calls *)

\* the methods the claim names as fire-and-forget: addr, block, inv, getblocks,
\* getblocksup, getdata, tx, version and the shutdown signal
FireAndForgetOps ==
    {"SendAddrList", "SendBlock", "SendInv", "SendGetBlocks", "SendGetBlocksUpper",
     "SendGetData", "SendTx", "SendVersion", "SendVoid"}

\* what a fire-and-forget call that reached SendData returns, told from the
\* address check, the dial and the write alone
FireAndForgetOutcome(c) ==
    LET a == CheckNodeAddress(call[c].addr)
    IN  IF a # Nil THEN a
        ELSE IF conn[c].fd = 0
             THEN NewCanNotConnectError(NodeAddrToString(call[c].addr) \o TxtNotAvailable)
        ELSE IF conn[c].writeEnd = "error" THEN NewCanNotSendError(TxtBrokenPipe)
        ELSE Nil

\* C14: a fire-and-forget call validates the address, then connects, then
\* writes, then closes: it never reads from the socket, and what it returns is
\* decided by the address check, the dial and the write, whatever the peer has
\* sent or not sent.
C14_FireAndForgetNeverReads ==
    \A c \in CallIds :
        call[c].op \in FireAndForgetOps =>
            /\ call[c].pc # "read"
            /\ conn[c].reads = 0 /\ conn[c].readEnd = "none"
            /\ conn[c].dials > 0 => CheckNodeAddress(call[c].addr) = Nil
            /\ conn[c].writes > 0 => (conn[c].dials = 1 /\ conn[c].fd # 0)
            /\ (call[c].pc = "done" /\ call[c].buildErr = Nil) =>
                  /\ call[c].inner = FireAndForgetOutcome(c)
                  /\ call[c].err = call[c].inner
                  /\ conn[c].state \in {"none", "closed"}
                  /\ conn[c].fd # 0 => (conn[c].state = "closed" /\ conn[c].writes = 1)
                  /\ call[c].inner = Nil => conn[c].sent = call[c].request

\* a fire-and-forget call has returned without error although the peer had
\* answered with an error status and had not closed the stream
C14_Witness ==
    \E c \in CallIds :
        /\ call[c].op = "SendTx"
        /\ call[c].pc = "done"
        /\ call[c].inner = Nil
        /\ conn[c].writeEnd = "ok"
        /\ conn[c].resp # <<>> /\ conn[c].resp[1] = 0
        /\ ~conn[c].peerClosed

\* C15: a wait-response call returns from its read only at the end of the
\* stream or with a read error: it decodes and returns a result only after the
\* peer has closed the stream, and as long as the peer has not closed it the
\* call, whatever bytes it has received, stays in its read unless the read
\* fails (there is no read deadline).
C15_ReturnsOnlyAfterPeerClose ==
    [][\A c \in CallIds :
          /\ (call[c].pc = "read" /\ call'[c].pc # "read") =>
                /\ call'[c].pc = "done"
                /\ \/ conn'[c].readEnd = "error" /\ call'[c].inner.type = "CanNotSendError"
                   \/ conn[c].peerClosed /\ conn'[c].readEnd = "eof"
          /\ (call'[c].out.set /\ ~call[c].out.set) =>
                (call[c].pc = "read" /\ conn[c].peerClosed)
          /\ (call[c].pc = "read" /\ ~conn[c].peerClosed /\ conn'[c].readEnd # "error")
                => call'[c].pc = "read"]_vars

\* a call is still in its read although the peer has sent a complete
\* successful answer: the peer has not closed the stream
C15_Witness ==
    \E c \in CallIds :
        /\ call[c].pc = "read"
        /\ conn[c].resp = <<1>> \o GobMessage("bytes", <<97>>)
        /\ ~conn[c].peerClosed
        /\ conn[c].reads = 0

-----------------------------------------------------------------------------
(* The dispatcher's fields *)

\* the fields of NodeClient no method assigns
FixedFields == {"DataDir", "Address", "Logger", "NodeNet"}

\* C16 as stated: the authorization token is the only field any operation
\* changes; every other field, the own node address included, keeps its value,
\* and no Send* or Build* operation changes any field.
C16_OnlyTokenChanges ==
    [][/\ \A f \in FixedFields \cup {"NodeAddress"} : client'[f] = client[f]
       /\ client' # client => UNCHANGED <<chk, built, call, conn>>]_vars

\* C16, amended: the authorization token and the own node address are the only
\* fields any operation changes (SetAuthStr, SetNodeAddress); DataDir,
\* Address, Logger and NodeNet keep their values, and no Send* or Build*
\* operation changes any field: a step that changes the dispatcher is a setter's
\* step and is no step of a call.
C16_OnlyTokenAndNodeAddressChange ==
    [][/\ \A f \in FixedFields : client'[f] = client[f]
       /\ client' # client => UNCHANGED <<chk, built, call, conn>>]_vars

\* both setters have run and an authorized call has returned; the other fields
\* are as they were at the start
C16_Witness ==
    /\ client.NodeAuthStr # <<>>
    /\ client.NodeAddress = NodeAddr(HostLocal, 20001)
    /\ \A f \in FixedFields :
           client[f] = [DataDir |-> "datadir", Address |-> "wallet",
                        Logger |-> "logger", NodeNet |-> "nodenet"][f]
    /\ \E c \in CallIds : call[c].pc = "done" /\ call[c].op = "SendAddNode"

-----------------------------------------------------------------------------
(* The bytes written to sockets *)

\* bs has the shape of an envelope: the header, and as many bytes after it as
\* its two length fields say
EnvelopeShaped(bs) ==
    /\ Len(bs) >= CommandLength + 8
    /\ Len(bs) = CommandLength + 8
                   + Uint32(Slice(bs, CommandLength + 1, CommandLength + 4))
                   + Uint32(Slice(bs, CommandLength + 5, CommandLength + 8))

\* C17 as stated: every request a command operation has written to a socket,
\* the shutdown signal included, has the envelope shape: its length is the
\* identifier width + 8 + PayloadLength + ExtraLength, never less than the header.
C17_EveryRequestIsEnvelope ==
    \A c \in CallIds :
        (conn[c].writeEnd = "ok" /\ call[c].buildErr = Nil)
            => EnvelopeShaped(conn[c].sent)

\* C17, amended: every request a command operation other than the shutdown
\* signal has built and written to a socket has the envelope shape; SendVoid
\* writes the identifier alone, CommandLength bytes without the length fields;
\* a method that goes on after a failed build writes no byte at all.
C17_EnvelopeUnlessVoid ==
    \A c \in CallIds :
        conn[c].writeEnd = "ok"
            => IF call[c].op = "SendVoid"
               THEN /\ Len(conn[c].sent) = CommandLength
                    /\ BytesToCommand(conn[c].sent) = CommandVoid
               ELSE IF call[c].buildErr # Nil THEN conn[c].sent = <<>>
               ELSE /\ EnvelopeShaped(conn[c].sent)
                    /\ DecodeEnvelope(conn[c].sent).command = OpOf(call[c].op).command

\* the shutdown signal has been written: twelve bytes, less than a header
C17_Witness ==
    \E c \in CallIds :
        /\ call[c].op = "SendVoid"
        /\ conn[c].writeEnd = "ok"
        /\ Len(conn[c].sent) = 12
        /\ Len(conn[c].sent) < CommandLength + 8

-----------------------------------------------------------------------------
(* The parsed query (package dbquery, parsed.go) *)

\* "DROP TABLE "
TxtDropTable == <<68, 82, 79, 80, 32, 84, 65, 66, 76, 69, 32>>

\* "DELETE FROM "
TxtDeleteFrom == <<68, 69, 76, 69, 84, 69, 32, 70, 82, 79, 77, 32>>

\* " WHERE "
TxtWhere == <<32, 87, 72, 69, 82, 69, 32>>

\* "='"
TxtEqualsQuote == <<61, 39>>

\* "SIGN:", "DATA:" and "PUBKEY:", the literal heads of the three patterns
MarkerSign == <<83, 73, 71, 78, 58>>

MarkerData == <<68, 65, 84, 65, 58>>

MarkerPubKey == <<80, 85, 66, 75, 69, 89, 58>>

\* "illegal base64 data at input byte ", the text of a base64.CorruptInputError
TxtIllegalBase64 == <<105, 108, 108, 101, 103, 97, 108, 32, 98, 97, 115, 101, 54, 52, 32, 100, 97, 116, 97, 32, 97, 116, 32, 105, 110, 112, 117, 116, 32, 98, 121, 116, 101, 32>>

\* QueryParsed.IsSelect
IsSelect(q) == q.Structure.Kind = QueryKindSelect

\* faulty variant of IsUpdate: the kind delete is left out
MutIsUpdateNoDelete(q) ==
    \/ q.Structure.Kind = QueryKindCreate
    \/ q.Structure.Kind = QueryKindDrop
    \/ q.Structure.Kind = QueryKindInsert
    \/ q.Structure.Kind = QueryKindUpdate

\* QueryParsed.IsUpdate
IsUpdate(q) ==
    \/ q.Structure.Kind = QueryKindCreate
    \/ q.Structure.Kind = QueryKindDrop
    \/ q.Structure.Kind = QueryKindDelete
    \/ q.Structure.Kind = QueryKindInsert
    \/ q.Structure.Kind = QueryKindUpdate

\* QueryParsed.ReferenceID: table, ":" and the key value
ReferenceID(q) == q.Structure.Table \o <<58>> \o q.KeyVal

RECURSIVE Quote(_)
\* database.Quote: a backslash is put before every quote character
Quote(s) ==
    IF s = <<>> THEN <<>>
    ELSE (IF Head(s) = 39 THEN <<92, 39>> ELSE <<Head(s)>>) \o Quote(Tail(s))

\* faulty variant of buildRollbackSQL: the key value is put in unquoted
MutBuildRollbackNoQuote(q) ==
    IF q.Structure.Kind = QueryKindCreate
    THEN [text |-> TxtDropTable \o q.Structure.Table, err |-> Nil]
    ELSE IF q.Structure.Kind = QueryKindDrop THEN [text |-> <<>>, err |-> Nil]
    ELSE IF q.Structure.Kind = QueryKindInsert
    THEN [text |-> TxtDeleteFrom \o q.Structure.Table \o TxtWhere \o q.KeyCol
                     \o TxtEqualsQuote \o q.KeyVal \o <<39>>,
          err |-> Nil]
    ELSE [text |-> <<>>, err |-> Nil]

\* QueryParsed.buildRollbackSQL: the statement text and the error
buildRollbackSQL(q) ==
    IF q.Structure.Kind = QueryKindCreate
    THEN [text |-> TxtDropTable \o q.Structure.Table, err |-> Nil]
    ELSE IF q.Structure.Kind = QueryKindDrop THEN [text |-> <<>>, err |-> Nil]
    ELSE IF q.Structure.Kind = QueryKindInsert
    THEN [text |-> TxtDeleteFrom \o q.Structure.Table \o TxtWhere \o q.KeyCol
                     \o TxtEqualsQuote \o Quote(q.KeyVal) \o <<39>>,
          err |-> Nil]
    ELSE [text |-> <<>>, err |-> Nil]

\* the least element of a non-empty set of numbers
Least(S) == CHOOSE n \in S : \A m \in S : n <= m

\* where a match of marker([^;]+); that starts at position i of s ends, 0 if
\* there is none: the marker, one byte or more that are not ';', and the
\* first ';' after them
MatchEnd(marker, s, i) ==
    LET from == i + Len(marker)
        semis == {j \in from..Len(s) : s[j] = 59}
    IN  IF from - 1 > Len(s) \/ SubSeq(s, i, from - 1) # marker THEN 0
        ELSE IF semis = {} \/ Least(semis) = from THEN 0
        ELSE Least(semis)

RECURSIVE FindAllFrom(_, _, _)
\* the matches that start at position i of s or after it, left to right and
\* not overlapping
FindAllFrom(marker, s, i) ==
    IF i > Len(s) THEN <<>>
    ELSE LET e == MatchEnd(marker, s, i)
         IN  IF e = 0 THEN FindAllFrom(marker, s, i + 1)
             ELSE <<SubSeq(s, i, e)>> \o FindAllFrom(marker, s, e + 1)

\* Regexp.FindAllString(s, -1) for the pattern marker([^;]+);
FindAllString(marker, s) == FindAllFrom(marker, s, 1)

\* the value of a byte in the standard base64 alphabet, -1 outside it
Base64Value(b) ==
    IF b \in 65..90 THEN b - 65
    ELSE IF b \in 97..122 THEN b - 71
    ELSE IF b \in 48..57 THEN b + 4
    ELSE IF b = 43 THEN 62
    ELSE IF b = 47 THEN 63
    ELSE -1

\* base64.CorruptInputError(offset)
CorruptInputError(offset) ==
    [type |-> "CorruptInputError", msg |-> TxtIllegalBase64 \o Itoa(offset)]

RECURSIVE SkipNewlines(_, _)
\* the first position from i on that holds no line break
SkipNewlines(src, i) ==
    IF i <= Len(src) /\ src[i] \in {10, 13} THEN SkipNewlines(src, i + 1) ELSE i

\* the bytes of a quantum of which dlen six-bit values are set
QuantumBytes(dbuf, dlen) ==
    LET d(k) == IF k <= Len(dbuf) THEN dbuf[k] ELSE 0
        val == d(1) * 262144 + d(2) * 4096 + d(3) * 64 + d(4)
        all == <<(val \div 65536) % 256, (val \div 256) % 256, val % 256>>
    IN  SubSeq(all, 1, dlen - 1)

RECURSIVE decodeQuantum(_, _, _)
\* base64 Encoding.decodeQuantum with padding: reads up to four values from
\* position si of src on (dbuf holds those read so far) and gives the position
\* after them, the bytes decoded and the error
decodeQuantum(src, si, dbuf) ==
    LET j == Len(dbuf)
        fail(offset) == [si |-> si, out |-> <<>>, err |-> CorruptInputError(offset)]
        padded(p) ==
            LET q == SkipNewlines(src, p)
            IN  [si |-> q, out |-> QuantumBytes(dbuf, j),
                 err |-> IF q <= Len(src) THEN CorruptInputError(q - 1) ELSE Nil]
    IN  IF j = 4 THEN [si |-> si, out |-> QuantumBytes(dbuf, 4), err |-> Nil]
        ELSE IF si > Len(src)
             THEN IF j = 0 THEN [si |-> si, out |-> <<>>, err |-> Nil]
                  ELSE fail(si - 1 - j)
        ELSE IF Base64Value(src[si]) >= 0
             THEN decodeQuantum(src, si + 1, Append(dbuf, Base64Value(src[si])))
        ELSE IF src[si] \in {10, 13} THEN decodeQuantum(src, si + 1, dbuf)
        ELSE IF src[si] # 61 THEN fail(si - 1)
        ELSE IF j < 2 THEN fail(si - 1)
        ELSE IF j = 3 THEN padded(si + 1)
        ELSE LET k == SkipNewlines(src, si + 1)
             IN  IF k > Len(src) THEN fail(Len(src))
                 ELSE IF src[k] # 61 THEN fail(k - 2)
                 ELSE padded(k + 1)

RECURSIVE DecodeFrom(_, _, _)
\* base64 Encoding.Decode from position si of src on: quantum after quantum,
\* up to the end or the first error; val holds what was decoded before the error
DecodeFrom(src, si, acc) ==
    IF si > Len(src) THEN [val |-> acc, err |-> Nil]
    ELSE LET q == decodeQuantum(src, si, <<>>)
         IN  IF q.err # Nil THEN [val |-> acc \o q.out, err |-> q.err]
             ELSE DecodeFrom(src, q.si, acc \o q.out)

\* base64.StdEncoding.DecodeString: the bytes decoded and the error
DecodeString(s) == DecodeFrom(s, 1, <<>>)

\* faulty variant of parseInfoFromComments: the last comment is read, not the
\* first
MutParseInfoLastComment(q) ==
    LET empty == [PubKey |-> <<>>, Signature |-> <<>>, TransactionBytes |-> <<>>,
                  err |-> Nil]
        comments == q.Structure.Comments
    IN  IF Len(comments) = 0 THEN empty
        ELSE LET comment == comments[Len(comments)]
                 s1 == FindAllString(MarkerSign, comment)
                 d1 == IF Len(s1) = 2 THEN DecodeString(s1[2])
                       ELSE [val |-> <<>>, err |-> Nil]
                 r1 == [empty EXCEPT !.Signature = d1.val, !.err = d1.err]
                 s2 == FindAllString(MarkerData, comment)
                 d2 == IF Len(s2) = 2 THEN DecodeString(s2[2])
                       ELSE [val |-> <<>>, err |-> Nil]
                 r2 == [r1 EXCEPT !.TransactionBytes = d2.val, !.err = d2.err]
                 s3 == FindAllString(MarkerPubKey, comment)
                 d3 == IF Len(s3) = 2 THEN DecodeString(s3[2])
                       ELSE [val |-> <<>>, err |-> Nil]
                 r3 == [r2 EXCEPT !.PubKey = d3.val, !.err = d3.err]
             IN  IF r1.err # Nil THEN r1
                 ELSE IF r2.err # Nil THEN r2
                 ELSE r3

\* faulty variant of parseInfoFromComments: of the second match only the text
\* between the marker and the ';' is decoded
MutParseInfoDecodesValue(q) ==
    LET empty == [PubKey |-> <<>>, Signature |-> <<>>, TransactionBytes |-> <<>>,
                  err |-> Nil]
        comments == q.Structure.Comments
        value(marker, m) == SubSeq(m, Len(marker) + 1, Len(m) - 1)
    IN  IF Len(comments) = 0 THEN empty
        ELSE LET comment == comments[1]
                 s1 == FindAllString(MarkerSign, comment)
                 d1 == IF Len(s1) = 2 THEN DecodeString(value(MarkerSign, s1[2]))
                       ELSE [val |-> <<>>, err |-> Nil]
                 r1 == [empty EXCEPT !.Signature = d1.val, !.err = d1.err]
                 s2 == FindAllString(MarkerData, comment)
                 d2 == IF Len(s2) = 2 THEN DecodeString(value(MarkerData, s2[2]))
                       ELSE [val |-> <<>>, err |-> Nil]
                 r2 == [r1 EXCEPT !.TransactionBytes = d2.val, !.err = d2.err]
                 s3 == FindAllString(MarkerPubKey, comment)
                 d3 == IF Len(s3) = 2 THEN DecodeString(value(MarkerPubKey, s3[2]))
                       ELSE [val |-> <<>>, err |-> Nil]
                 r3 == [r2 EXCEPT !.PubKey = d3.val, !.err = d3.err]
             IN  IF r1.err # Nil THEN r1
                 ELSE IF r2.err # Nil THEN r2
                 ELSE r3

\* QueryParsed.parseInfoFromComments: the three values read from the first
\* comment, and the error; a value is decoded when its pattern has exactly two
\* matches, from the whole second match
parseInfoFromComments(q) ==
    LET empty == [PubKey |-> <<>>, Signature |-> <<>>, TransactionBytes |-> <<>>,
                  err |-> Nil]
        comments == q.Structure.Comments
    IN  IF Len(comments) = 0 THEN empty
        ELSE LET comment == comments[1]
                 s1 == FindAllString(MarkerSign, comment)
                 d1 == IF Len(s1) = 2 THEN DecodeString(s1[2])
                       ELSE [val |-> <<>>, err |-> Nil]
                 r1 == [empty EXCEPT !.Signature = d1.val, !.err = d1.err]
                 s2 == FindAllString(MarkerData, comment)
                 d2 == IF Len(s2) = 2 THEN DecodeString(s2[2])
                       ELSE [val |-> <<>>, err |-> Nil]
                 r2 == [r1 EXCEPT !.TransactionBytes = d2.val, !.err = d2.err]
                 s3 == FindAllString(MarkerPubKey, comment)
                 d3 == IF Len(s3) = 2 THEN DecodeString(s3[2])
                       ELSE [val |-> <<>>, err |-> Nil]
                 r3 == [r2 EXCEPT !.PubKey = d3.val, !.err = d3.err]
             IN  IF r1.err # Nil THEN r1
                 ELSE IF r2.err # Nil THEN r2
                 ELSE r3

-----------------------------------------------------------------------------
(* Calls of the methods of a parsed query (SpecQuery) *)

\* the longest comment of the model, in marker segments
MaxSegs == 3

\* a kind the parser may report that is none of the six of package lib
KindOutside == "show"

Kinds ==
    {QueryKindSelect, QueryKindUpdate, QueryKindInsert, QueryKindDelete,
     QueryKindCreate, QueryKindDrop, KindOutside}

\* the tables "users" and "t", the key column "id", the key values "a'b" and "7"
Tables == {<<117, 115, 101, 114, 115>>, <<116>>}

KeyColId == <<105, 100>>

KeyVals == {<<97, 39, 98>>, <<55>>}

\* "SIGN:c2lnbmF0dXJl;", "DATA:ZGF0YQ==;" and "PUBKEY:cHVia2V5;": the markers
\* with the base64 texts of "signature", "data" and "pubkey"
SegSign == <<83, 73, 71, 78, 58, 99, 50, 108, 110, 98, 109, 70, 48, 100, 88, 74, 108, 59>>

SegData == <<68, 65, 84, 65, 58, 90, 71, 70, 48, 89, 81, 61, 61, 59>>

SegPubKey == <<80, 85, 66, 75, 69, 89, 58, 99, 72, 86, 105, 97, 50, 86, 53, 59>>

\* "SIGN:c2ln*;": a marker with a text that is no base64
SegSignBad == <<83, 73, 71, 78, 58, 99, 50, 108, 110, 42, 59>>

Segments == {SegSign, SegData, SegPubKey, SegSignBad}

RECURSIVE Concat(_)
\* the texts of a sequence of texts, one after the other
Concat(ss) == IF ss = <<>> THEN <<>> ELSE Head(ss) \o Concat(Tail(ss))

\* the comments of the model: up to MaxSegs segments in any order
Comments == {Concat(ss) : ss \in SeqsUpTo(Segments, MaxSegs)}

\* the comment with the three markers once each
ExampleComment == SegSign \o SegData \o SegPubKey

\* a later comment that holds a marker twice
LaterComment == SegSign \o SegSign

\* what GetComments returns: no comment, one, or two of which the second
\* holds a marker twice
CommentLists ==
    {<<>>} \cup {<<c>> : c \in Comments} \cup {<<c, LaterComment>> : c \in Comments}

\* the parsed queries of the model
Queries ==
    {QueryParsed(k, t, cs, KeyColId, v) :
        k \in Kinds, t \in Tables, cs \in CommentLists, v \in KeyVals}

\* the result of a method call on qp; the receiver is passed by value
Called(fn) == [NoRes EXCEPT !.fn = fn, !.recv = qp]

CallIsSelect ==
    /\ qp.Structure.set
    /\ res' = [Called("IsSelect") EXCEPT !.bool = IsSelect(qp)]
    /\ UNCHANGED <<client, chk, built, call, conn, qp>>

CallIsUpdate ==
    /\ qp.Structure.set
    /\ res' = [Called("IsUpdate") EXCEPT !.bool = IsUpdate(qp)]
    /\ UNCHANGED <<client, chk, built, call, conn, qp>>

CallReferenceID ==
    /\ qp.Structure.set
    /\ res' = [Called("ReferenceID") EXCEPT !.text = ReferenceID(qp)]
    /\ UNCHANGED <<client, chk, built, call, conn, qp>>

CallBuildRollbackSQL ==
    /\ qp.Structure.set
    /\ LET r == buildRollbackSQL(qp)
       IN  res' = [Called("buildRollbackSQL") EXCEPT !.text = r.text, !.err = r.err]
    /\ UNCHANGED <<client, chk, built, call, conn, qp>>

CallParseInfoFromComments ==
    /\ qp.Structure.set
    /\ LET r == parseInfoFromComments(qp)
       IN  res' = [Called("parseInfoFromComments") EXCEPT
                       !.PubKey = r.PubKey, !.Signature = r.Signature,
                       !.TransactionBytes = r.TransactionBytes, !.err = r.err]
    /\ UNCHANGED <<client, chk, built, call, conn, qp>>

\* a query as the parser made it; no method called yet
InitQuery ==
    /\ InitClient
    /\ qp \in Queries
    /\ res = NoRes

NextQuery ==
    \/ CallIsSelect
    \/ CallIsUpdate
    \/ CallReferenceID
    \/ CallBuildRollbackSQL
    \/ CallParseInfoFromComments

SpecQuery == InitQuery /\ [][NextQuery]_vars

-----------------------------------------------------------------------------
(* Claims about the parsed query (SpecQuery) *)

\* the kinds that change data or structure
UpdateKinds ==
    {QueryKindCreate, QueryKindDrop, QueryKindDelete, QueryKindInsert, QueryKindUpdate}

\* C18 as stated: for every kind exactly one of IsSelect and IsUpdate holds;
\* IsUpdate holds exactly for create, drop, delete, insert and update, and
\* IsSelect for every other kind.
C18_ClassificationTotal ==
    /\ res.fn = "IsUpdate" =>
          /\ res.bool = (res.recv.Structure.Kind \in UpdateKinds)
          /\ res.bool # IsSelect(res.recv)
    /\ res.fn = "IsSelect" =>
          /\ res.bool = (res.recv.Structure.Kind \notin UpdateKinds)
          /\ res.bool # IsUpdate(res.recv)

\* C18, amended: IsUpdate holds exactly for create, drop, delete, insert and
\* update, IsSelect exactly for select; for the six kinds exactly one of the
\* two holds, and for a kind outside the six neither does.
C18_ClassificationOfSixKinds ==
    /\ res.fn = "IsUpdate" =>
          /\ res.bool = (res.recv.Structure.Kind \in UpdateKinds)
          /\ res.recv.Structure.Kind \in UpdateKinds \cup {QueryKindSelect}
                 => res.bool # IsSelect(res.recv)
          /\ res.recv.Structure.Kind \notin UpdateKinds \cup {QueryKindSelect}
                 => (~res.bool /\ ~IsSelect(res.recv))
    /\ res.fn = "IsSelect" =>
          /\ res.bool = (res.recv.Structure.Kind = QueryKindSelect)
          /\ res.recv.Structure.Kind \in UpdateKinds \cup {QueryKindSelect}
                 => res.bool # IsUpdate(res.recv)
          /\ res.recv.Structure.Kind \notin UpdateKinds \cup {QueryKindSelect}
                 => (~res.bool /\ ~IsUpdate(res.recv))

\* IsSelect has answered no for a kind that is no update either
C18_Witness ==
    /\ res.fn = "IsSelect"
    /\ res.recv.Structure.Kind = KindOutside
    /\ ~res.bool

\* C19: buildRollbackSQL returns for create the text DROP TABLE <table>, for
\* insert the text DELETE FROM <table> WHERE <key column>='<key value with its
\* quotes escaped>' (for users, id and a'b: DELETE FROM users WHERE id='a\'b'),
\* and for every other kind the empty text; it never returns an error and
\* leaves the QueryParsed value as it was.
C19_RollbackStatement ==
    res.fn = "buildRollbackSQL" =>
        LET s == res.recv.Structure
        IN  /\ res.err = Nil
            /\ qp = res.recv
            /\ s.Kind = QueryKindCreate => res.text = TxtDropTable \o s.Table
            /\ (s.Kind = QueryKindCreate /\ s.Table = <<116>>)
                   => res.text = <<68, 82, 79, 80, 32, 84, 65, 66, 76, 69, 32, 116>>
            /\ s.Kind = QueryKindInsert =>
                   res.text = TxtDeleteFrom \o s.Table \o TxtWhere \o res.recv.KeyCol
                                 \o <<61, 39>> \o Quote(res.recv.KeyVal) \o <<39>>
            /\ (s.Kind = QueryKindInsert /\ s.Table = <<117, 115, 101, 114, 115>>
                    /\ res.recv.KeyCol = <<105, 100>> /\ res.recv.KeyVal = <<97, 39, 98>>)
                   => res.text = <<68, 69, 76, 69, 84, 69, 32, 70, 82, 79, 77, 32, 117, 115, 101, 114, 115, 32, 87, 72, 69, 82, 69, 32, 105, 100, 61, 39, 97, 92, 39, 98, 39>>
            /\ s.Kind \notin {QueryKindCreate, QueryKindInsert} => res.text = <<>>

\* the rollback of the insert of the claim's example has been built
C19_Witness ==
    /\ res.fn = "buildRollbackSQL"
    /\ res.recv.Structure.Kind = QueryKindInsert
    /\ res.recv.Structure.Table = <<117, 115, 101, 114, 115>>
    /\ res.recv.KeyVal = <<97, 39, 98>>
    /\ Len(res.text) = 33

\* the text between the marker and the ';' of the first match of the marker's
\* pattern in comment
MarkerValue(marker, comment) ==
    LET m == FindAllString(marker, comment)[1]
    IN  SubSeq(m, Len(marker) + 1, Len(m) - 1)

\* the marker's pattern matches once in comment, with a base64 text
OnceWithBase64(marker, comment) ==
    /\ Len(FindAllString(marker, comment)) = 1
    /\ DecodeString(MarkerValue(marker, comment)).err = Nil

\* C20: for a statement whose first comment holds the markers SIGN:<v1>;
\* DATA:<v2>; PUBKEY:<v3>; once each with base64 texts, parseInfoFromComments
\* returns no error and, as Signature, TransactionBytes and PubKey, the bytes
\* v1, v2 and v3 decode to (signature, data and pubkey for the comment
\* SIGN:c2lnbmF0dXJl;DATA:ZGF0YQ==;PUBKEY:cHVia2V5;).
C20_MarkersOnceDecoded ==
    (/\ res.fn = "parseInfoFromComments"
     /\ Len(res.recv.Structure.Comments) > 0
     /\ \A marker \in {MarkerSign, MarkerData, MarkerPubKey} :
            OnceWithBase64(marker, res.recv.Structure.Comments[1]))
        => LET comment == res.recv.Structure.Comments[1]
           IN  /\ res.err = Nil
               /\ res.Signature = DecodeString(MarkerValue(MarkerSign, comment)).val
               /\ res.TransactionBytes = DecodeString(MarkerValue(MarkerData, comment)).val
               /\ res.PubKey = DecodeString(MarkerValue(MarkerPubKey, comment)).val
               /\ comment = ExampleComment =>
                      /\ res.Signature = <<115, 105, 103, 110, 97, 116, 117, 114, 101>>
                      /\ res.TransactionBytes = <<100, 97, 116, 97>>
                      /\ res.PubKey = <<112, 117, 98, 107, 101, 121>>

\* the text marker occurs somewhere in s
Occurs(marker, s) ==
    \E i \in 1..Len(s) :
        i + Len(marker) - 1 <= Len(s) /\ SubSeq(s, i, i + Len(marker) - 1) = marker

\* the three outputs of the last call are empty
OutputsEmpty == res.PubKey = <<>> /\ res.Signature = <<>> /\ res.TransactionBytes = <<>>

\* C21: parseInfoFromComments reads the first comment only: without a comment,
\* or with a first comment that holds none of the markers, the three outputs
\* are empty and there is no error; the output of a marker the first comment
\* does not hold is empty whatever the other markers are; and the comments
\* after the first change nothing in what is returned.
C21_FirstCommentOnly ==
    res.fn = "parseInfoFromComments" =>
        LET comments == res.recv.Structure.Comments
        IN  /\ Len(comments) = 0 => (OutputsEmpty /\ res.err = Nil)
            /\ Len(comments) > 0 =>
                  LET comment == comments[1]
                      first == parseInfoFromComments(
                                   [res.recv EXCEPT !.Structure.Comments = <<comment>>])
                  IN  /\ (\A m \in {MarkerSign, MarkerData, MarkerPubKey} :
                              ~Occurs(m, comment)) => (OutputsEmpty /\ res.err = Nil)
                      /\ ~Occurs(MarkerSign, comment) => res.Signature = <<>>
                      /\ ~Occurs(MarkerData, comment) => res.TransactionBytes = <<>>
                      /\ ~Occurs(MarkerPubKey, comment) => res.PubKey = <<>>
                      /\ res.PubKey = first.PubKey
                      /\ res.Signature = first.Signature
                      /\ res.TransactionBytes = first.TransactionBytes
                      /\ res.err = first.err

\* the call has returned empty outputs and no error for a first comment without
\* markers, although the second comment holds a marker twice
C21_Witness ==
    /\ res.fn = "parseInfoFromComments"
    /\ res.recv.Structure.Comments = <<<<>>, LaterComment>>
    /\ OutputsEmpty
    /\ res.err = Nil

\* comment holds a match of the marker's pattern whose value, the text between
\* the marker and the ';', is no base64
HasBadValue(marker, comment) ==
    LET ms == FindAllString(marker, comment)
    IN  \E k \in 1..Len(ms) :
            DecodeString(SubSeq(ms[k], Len(marker) + 1, Len(ms[k]) - 1)).err # Nil

\* C22: when the first comment holds a marker (SIGN, DATA or PUBKEY) whose
\* value is no base64, parseInfoFromComments returns a decode error; and
\* whenever it returns an error the three outputs are empty: neither a field
\* decoded before the failure nor bytes of the failing field are returned.
C22_BadBase64FailsWithoutPartial ==
    res.fn = "parseInfoFromComments" =>
        /\ (/\ Len(res.recv.Structure.Comments) > 0
            /\ \E m \in {MarkerSign, MarkerData, MarkerPubKey} :
                   HasBadValue(m, res.recv.Structure.Comments[1]))
               => res.err.type = "CorruptInputError"
        /\ res.err # Nil => OutputsEmpty

\* how often the text marker occurs in s; in the comments of the model every
\* occurrence of a marker is a match of its pattern
CountOccurs(marker, s) ==
    Cardinality({i \in 1..Len(s) :
                    i + Len(marker) - 1 <= Len(s)
                        /\ SubSeq(s, i, i + Len(marker) - 1) = marker})

\* C23: parseInfoFromComments decodes a field only when the marker's pattern
\* matches exactly twice in the first comment, and it decodes the whole second
\* match, marker and ';' included: the decoder then yields the three bytes of
\* the marker's first four letters and fails at the colon. Whenever the call
\* returns no error the three outputs are empty.
C23_DecodesWholeSecondMatch ==
    res.fn = "parseInfoFromComments" =>
        LET comments == res.recv.Structure.Comments
            comment == IF Len(comments) = 0 THEN <<>> ELSE comments[1]
            twice(m) == CountOccurs(m, comment) = 2
            failed == res.err.type = "CorruptInputError"
        IN  /\ res.Signature # <<>> => twice(MarkerSign)
            /\ res.TransactionBytes # <<>> => twice(MarkerData)
            /\ res.PubKey # <<>> => twice(MarkerPubKey)
            /\ twice(MarkerSign) =>
                  /\ failed /\ res.Signature = <<72, 129, 141>>
                  /\ res.TransactionBytes = <<>> /\ res.PubKey = <<>>
            /\ (~twice(MarkerSign) /\ twice(MarkerData)) =>
                  /\ failed /\ res.TransactionBytes = <<12, 4, 192>>
                  /\ res.Signature = <<>> /\ res.PubKey = <<>>
            /\ (~twice(MarkerSign) /\ ~twice(MarkerData) /\ twice(MarkerPubKey)) =>
                  /\ failed /\ res.PubKey = <<61, 64, 74>>
                  /\ res.Signature = <<>> /\ res.TransactionBytes = <<>>
            /\ (~twice(MarkerSign) /\ ~twice(MarkerData) /\ ~twice(MarkerPubKey))
                  => res.err = Nil
            /\ res.err = Nil => OutputsEmpty

\* the call has returned for a first comment with the DATA marker twice and
\* the SIGN marker once: an error, and the three bytes "DATA" decodes to
C23_Witness ==
    /\ res.fn = "parseInfoFromComments"
    /\ res.recv.Structure.Comments = <<SegData \o SegSign \o SegData>>
    /\ res.err.type = "CorruptInputError"
    /\ res.TransactionBytes = <<12, 4, 192>>

-----------------------------------------------------------------------------
(* Failed builds *)

\* C24: for every command operation, when the build of the request fails the
\* operation returns the builder's error, dials no socket and writes no byte:
\* no call goes on to the network with a request that was not built.
C24_BuildFailureStopsCall ==
    \A c \in CallIds :
        call[c].buildErr # Nil =>
            /\ call[c].pc = "done"
            /\ call[c].err = call[c].buildErr
            /\ conn[c].dials = 0 /\ conn[c].writes = 0
            /\ conn[c].state = "none"

=============================================================================
